---- MODULE Spec2Model ----
(***************************************************************************)
(* Model of TradingAnalyzer (src/betterpridictormodule.py): the five       *)
(* confluence evaluators, generate_comprehensive_analysis, which merges    *)
(* their outputs, and calculate_confluence_strength, which scores the      *)
(* merged Confluence Set.                                                  *)
(*                                                                         *)
(* Numbers of the snapshot are held in thousandths (30.0 is 30000), so     *)
(* that every threshold of the rule table and every value the properties   *)
(* name (29.999, 25.01, 0.05) is an integer.  A confidence, a float in the *)
(* code, is held as the exact fraction <<numerator, denominator>> in       *)
(* lowest terms.                                                           *)
(***************************************************************************)
EXTENDS Integers, Sequences, FiniteSets, TLC

VARIABLES
    confluence_threshold,  \* self.confluence_threshold
    row,                   \* latest_row: the snapshot the evaluators read
    pc,                    \* position of the caller
    conf,                  \* the evaluators' returned dicts, by evaluator
    calls,                 \* how many times each evaluator has been called
    in_order,              \* the first calls so far came in the order of lines 402-406
    all_confluences,       \* the merged Confluence Set
    result,                \* what calculate_confluence_strength returned
    error                  \* the exception that ended the run, or NoError

vars ==
    <<confluence_threshold, row, pc, conf, calls, in_order, all_confluences, result, error>>

(***************************************************************************)
(* Bounds of the model.                                                    *)
(***************************************************************************)
MaxSignals == 4     \* signals in a Confluence Set handed to the aggregator
MaxThreshold == 6   \* largest confluence threshold tried
MaxCalls == 2       \* calls of one evaluator on one snapshot

(***************************************************************************)
(* Signals and Confluence Sets.                                            *)
(***************************************************************************)
Directions == {"bullish", "bearish", "neutral"}

Signal(ind, cond, impl, s, tf) ==
    [indicator |-> ind, condition |-> cond, implication |-> impl,
     strength |-> s, timeframe |-> tf]

\* A local that has not been assigned yet.
Unset == [pending |-> TRUE]
NoError == [raised |-> "none", key |-> "none"]

\* confluences = {'bullish': [], 'bearish': [], 'neutral': []}
NewConfluences == [bullish |-> <<>>, bearish |-> <<>>, neutral |-> <<>>]

\* confluences[d].append(sig)
AppendTo(c, d, sig) == [c EXCEPT ![d] = Append(@, sig)]

(***************************************************************************)
(* calculate_confluence_strength.                                          *)
(***************************************************************************)
DefaultThreshold == 3

RECURSIVE GCD(_, _)
GCD(a, b) == IF b = 0 THEN a ELSE GCD(b, a % b)

\* The value of n / d, d > 0, as a fraction in lowest terms.
Frac(n, d) == LET g == GCD(n, d) IN <<n \div g, d \div g>>

\* strength_weights.get(conf['strength'], 1)
StrengthWeightNoFallback(s) ==
    CASE s = "Strong" -> 3 [] s = "Medium" -> 2 [] s = "Low" -> 1 [] OTHER -> 0
StrengthWeight(s) ==
    CASE s = "Strong" -> 3 [] s = "Medium" -> 2 [] s = "Low" -> 1 [] OTHER -> 1

\* sum(strength_weights.get(conf['strength'], 1) for conf in confluences[d])
RECURSIVE Score(_)
Score(sigs) ==
    IF sigs = <<>> THEN 0
    ELSE StrengthWeight(Head(sigs).strength) + Score(Tail(sigs))

Returned(label, confidence) ==
    [label |-> label, confidence |-> confidence, raised |-> "none"]
Raised(exc) == [label |-> "none", confidence |-> <<0, 1>>, raised |-> exc]

ReturnRatio(label, score, total) ==
    IF total = 0 THEN Raised("ZeroDivisionError")
    ELSE Returned(label, Frac(score, total))
\* (score / total_score) * 100: Python raises ZeroDivisionError on a zero total.
ReturnPercent(label, score, total) ==
    IF total = 0 THEN Raised("ZeroDivisionError")
    ELSE Returned(label, Frac(100 * score, total))

Max(a, b) == IF a >= b THEN a ELSE b
Min(a, b) == IF a <= b THEN a ELSE b

\* The zero-total test of line 433.
NoZeroTotalTest(total) == FALSE
IsZeroTotal(total) == total = 0

\* The two gates of lines 436 and 439.
BiasGateNonStrict(mine, other, threshold) == mine >= other /\ mine >= threshold
BiasGateNoThreshold(mine, other, threshold) == mine > other
BiasGate(mine, other, threshold) == mine > other /\ mine >= threshold

\* The confidence of the else branch, line 443.
MixedPercentMin(label, b, r, total) == ReturnPercent(label, Min(b, r), total)
MixedPercentBullishOnly(label, b, r, total) == ReturnPercent(label, b, total)
MixedPercent(label, b, r, total) == ReturnPercent(label, Max(b, r), total)

\* The aggregator with each gate asking its score to exceed the rest of the total.
calculate_confluence_strength_against_rest(confluences, threshold) ==
    LET bullish_score == Score(confluences.bullish)
        bearish_score == Score(confluences.bearish)
        neutral_score == Score(confluences.neutral)
        total_score == bullish_score + bearish_score + neutral_score
    IN  IF IsZeroTotal(total_score) THEN Returned("No Clear Signal", <<0, 1>>)
        ELSE IF BiasGate(bullish_score, bearish_score + neutral_score, threshold)
             THEN ReturnPercent("Bullish Bias", bullish_score, total_score)
        ELSE IF BiasGate(bearish_score, bullish_score + neutral_score, threshold)
             THEN ReturnPercent("Bearish Bias", bearish_score, total_score)
        ELSE MixedPercent("Mixed/Neutral", bullish_score, bearish_score, total_score)

calculate_confluence_strength(confluences, threshold) ==
    LET bullish_score == Score(confluences.bullish)
        bearish_score == Score(confluences.bearish)
        neutral_score == Score(confluences.neutral)
        total_score == bullish_score + bearish_score + neutral_score
    IN  IF IsZeroTotal(total_score) THEN Returned("No Clear Signal", <<0, 1>>)
        ELSE IF BiasGate(bullish_score, bearish_score, threshold)
             THEN ReturnPercent("Bullish Bias", bullish_score, total_score)
        ELSE IF BiasGate(bearish_score, bullish_score, threshold)
             THEN ReturnPercent("Bearish Bias", bearish_score, total_score)
        ELSE MixedPercent("Mixed/Neutral", bullish_score, bearish_score, total_score)

(***************************************************************************)
(* The snapshot.  A field holds <<"num", n>> (n thousandths), the float    *)
(* values <<"nan", 0>>, <<"inf", 1>> and <<"inf", -1>>, or                  *)
(* <<"missing", 0>> when the row has no such key.  The numeric rendering   *)
(* of a value inside a condition text is left as its format placeholder.   *)
(***************************************************************************)
Num(n) == <<"num", n>>
NaN == <<"nan", 0>>
PosInf == <<"inf", 1>>
NegInf == <<"inf", -1>>
Missing == <<"missing", 0>>

Fields ==
    {"RSI_14", "Stoch_K", "Stoch_D", "Williams_R",
     "EMA_9", "EMA_21", "EMA_50", "MACD", "MACD_Signal", "MACD_Histogram",
     "ADX", "DI_Plus", "DI_Minus",
     "BB_Position", "BB_Width", "ATR_Percent",
     "Volume_Ratio", "CMF",
     "Open", "Close", "Body_Size", "Upper_Wick", "Lower_Wick"}

\* Float comparison: every comparison with nan is false; inf orders as a float does.
Huge == 10^9
Comparable(a) == a[1] \in {"num", "inf"}
Ord(a) == IF a[1] = "num" THEN a[2] ELSE a[2] * Huge
Lt(a, b) == Comparable(a) /\ Comparable(b) /\ Ord(a) < Ord(b)
Gt(a, b) == Lt(b, a)
Le(a, b) == Comparable(a) /\ Comparable(b) /\ Ord(a) <= Ord(b)

\* row['Body_Size'] * 2
Twice(a) == IF a[1] = "num" THEN Num(2 * a[2]) ELSE a

\* The first key of `reads`, the keys a call subscripts in order, that the row lacks.
RECURSIVE FirstMissing(_, _)
FirstMissing(reads, r) ==
    IF reads = <<>> THEN "none"
    ELSE IF r[Head(reads)] = Missing THEN Head(reads)
    ELSE FirstMissing(Tail(reads), r)

\* What a call of an evaluator does: it returns its dict, or row[key] raises KeyError.
Outcome(reads, r, c) ==
    LET k == FirstMissing(reads, r)
    IN  IF k = "none" THEN [raised |-> "none", key |-> "none", confluences |-> c]
        ELSE [raised |-> "KeyError", key |-> k, confluences |-> NewConfluences]

(***************************************************************************)
(* analyze_momentum_confluence.                                            *)
(***************************************************************************)
\* The RSI rule with the tests at 30 and 70 inclusive.
RsiRuleInclusive(c, r) ==
    IF Le(r.RSI_14, Num(30000)) THEN
        AppendTo(c, "bullish", Signal("RSI (14)", "Oversold at {RSI_14:.1f}",
            "Potential bounce or reversal setup. Watch for bullish divergence or break above 30.",
            "Medium", "Short-term"))
    ELSE IF Le(Num(70000), r.RSI_14) THEN
        AppendTo(c, "bearish", Signal("RSI (14)", "Overbought at {RSI_14:.1f}",
            "Potential pullback or distribution. Watch for bearish divergence or break below 70.",
            "Medium", "Short-term"))
    ELSE IF Le(Num(45000), r.RSI_14) /\ Le(r.RSI_14, Num(55000)) THEN
        AppendTo(c, "neutral", Signal("RSI (14)", "Neutral at {RSI_14:.1f}",
            "Balanced momentum. Look for directional break above 55 or below 45.",
            "Low", "Short-term"))
    ELSE c
RsiRule(c, r) ==
    IF Lt(r.RSI_14, Num(30000)) THEN
        AppendTo(c, "bullish", Signal("RSI (14)", "Oversold at {RSI_14:.1f}",
            "Potential bounce or reversal setup. Watch for bullish divergence or break above 30.",
            "Medium", "Short-term"))
    ELSE IF Gt(r.RSI_14, Num(70000)) THEN
        AppendTo(c, "bearish", Signal("RSI (14)", "Overbought at {RSI_14:.1f}",
            "Potential pullback or distribution. Watch for bearish divergence or break below 70.",
            "Medium", "Short-term"))
    ELSE IF Le(Num(45000), r.RSI_14) /\ Le(r.RSI_14, Num(55000)) THEN
        AppendTo(c, "neutral", Signal("RSI (14)", "Neutral at {RSI_14:.1f}",
            "Balanced momentum. Look for directional break above 55 or below 45.",
            "Low", "Short-term"))
    ELSE c

\* The Stochastic rule with Strong given on %K = %D as well.
StochRuleStrongOnTie(c, r) ==
    IF Lt(r.Stoch_K, Num(20000)) /\ Lt(r.Stoch_D, Num(20000)) THEN
        AppendTo(c, "bullish", Signal("Stochastic",
            "Both %K ({Stoch_K:.1f}) and %D ({Stoch_D:.1f}) oversold",
            "Strong oversold condition. Potential reversal when %K crosses above %D.",
            IF Le(r.Stoch_D, r.Stoch_K) THEN "Strong" ELSE "Medium", "Short-term"))
    ELSE IF Gt(r.Stoch_K, Num(80000)) /\ Gt(r.Stoch_D, Num(80000)) THEN
        AppendTo(c, "bearish", Signal("Stochastic",
            "Both %K ({Stoch_K:.1f}) and %D ({Stoch_D:.1f}) overbought",
            "Strong overbought condition. Potential reversal when %K crosses below %D.",
            IF Le(r.Stoch_K, r.Stoch_D) THEN "Strong" ELSE "Medium", "Short-term"))
    ELSE c
StochRule(c, r) ==
    IF Lt(r.Stoch_K, Num(20000)) /\ Lt(r.Stoch_D, Num(20000)) THEN
        AppendTo(c, "bullish", Signal("Stochastic",
            "Both %K ({Stoch_K:.1f}) and %D ({Stoch_D:.1f}) oversold",
            "Strong oversold condition. Potential reversal when %K crosses above %D.",
            IF Gt(r.Stoch_K, r.Stoch_D) THEN "Strong" ELSE "Medium", "Short-term"))
    ELSE IF Gt(r.Stoch_K, Num(80000)) /\ Gt(r.Stoch_D, Num(80000)) THEN
        AppendTo(c, "bearish", Signal("Stochastic",
            "Both %K ({Stoch_K:.1f}) and %D ({Stoch_D:.1f}) overbought",
            "Strong overbought condition. Potential reversal when %K crosses below %D.",
            IF Lt(r.Stoch_K, r.Stoch_D) THEN "Strong" ELSE "Medium", "Short-term"))
    ELSE c

WilliamsRule(c, r) ==
    IF Lt(r.Williams_R, Num(-80000)) THEN
        AppendTo(c, "bullish", Signal("Williams %R", "Oversold at {Williams_R:.1f}",
            "Potential buying opportunity. Watch for move above -80 for confirmation.",
            "Medium", "Short-term"))
    ELSE IF Gt(r.Williams_R, Num(-20000)) THEN
        AppendTo(c, "bearish", Signal("Williams %R", "Overbought at {Williams_R:.1f}",
            "Potential selling pressure. Watch for move below -20 for confirmation.",
            "Medium", "Short-term"))
    ELSE c

\* row['Stoch_D'] is subscripted only behind a true left operand of `and`.
MomentumReads(r) ==
    <<"RSI_14", "Stoch_K">>
    \o (IF Lt(r.Stoch_K, Num(20000)) \/ Gt(r.Stoch_K, Num(80000))
        THEN <<"Stoch_D">> ELSE <<>>)
    \o <<"Williams_R">>

\* The dict kept from one call to the next, as a default argument or attribute is.
analyze_momentum_confluence_shared(r) ==
    Outcome(MomentumReads(r), r,
            WilliamsRule(StochRule(RsiRule(
                IF conf["momentum"] = Unset THEN NewConfluences ELSE conf["momentum"],
                r), r), r))
analyze_momentum_confluence(r) ==
    Outcome(MomentumReads(r), r,
            WilliamsRule(StochRule(RsiRule(NewConfluences, r), r), r))

(***************************************************************************)
(* analyze_trend_confluence.                                               *)
(***************************************************************************)
ema_alignment(r) ==
    IF Gt(r.EMA_9, r.EMA_21) /\ Gt(r.EMA_21, r.EMA_50) THEN "bullish"
    ELSE IF Lt(r.EMA_9, r.EMA_21) /\ Lt(r.EMA_21, r.EMA_50) THEN "bearish"
    ELSE "mixed"

EmaAlignmentRule(c, r) ==
    IF ema_alignment(r) = "bullish" THEN
        AppendTo(c, "bullish", Signal("EMA Alignment", "EMA 9 > EMA 21 > EMA 50",
            "Strong bullish trend structure. Expect continuation with pullbacks to EMAs as support.",
            "Strong", "Medium-term"))
    ELSE IF ema_alignment(r) = "bearish" THEN
        AppendTo(c, "bearish", Signal("EMA Alignment", "EMA 9 < EMA 21 < EMA 50",
            "Strong bearish trend structure. Expect continuation with rallies to EMAs as resistance.",
            "Strong", "Medium-term"))
    ELSE c

\* The price rule with a bearish signal only for a close strictly below EMA 21.
PriceVsEmaRuleSkipsEqual(c, r) ==
    IF Gt(r.Close, r.EMA_21) THEN
        AppendTo(c, "bullish", Signal("Price vs EMA 21",
            "Price {(Close/EMA_21-1)*100:+.2f}% above EMA 21",
            "Bullish bias maintained. EMA 21 likely to act as dynamic support.",
            "Medium", "Short to Medium-term"))
    ELSE IF Lt(r.Close, r.EMA_21) THEN
        AppendTo(c, "bearish", Signal("Price vs EMA 21",
            "Price {(Close/EMA_21-1)*100:+.2f}% below EMA 21",
            "Bearish bias maintained. EMA 21 likely to act as dynamic resistance.",
            "Medium", "Short to Medium-term"))
    ELSE c
PriceVsEmaRule(c, r) ==
    IF Gt(r.Close, r.EMA_21) THEN
        AppendTo(c, "bullish", Signal("Price vs EMA 21",
            "Price {(Close/EMA_21-1)*100:+.2f}% above EMA 21",
            "Bullish bias maintained. EMA 21 likely to act as dynamic support.",
            "Medium", "Short to Medium-term"))
    ELSE
        AppendTo(c, "bearish", Signal("Price vs EMA 21",
            "Price {(Close/EMA_21-1)*100:+.2f}% below EMA 21",
            "Bearish bias maintained. EMA 21 likely to act as dynamic resistance.",
            "Medium", "Short to Medium-term"))

MacdRule(c, r) ==
    IF Gt(r.MACD, r.MACD_Signal) /\ Gt(r.MACD_Histogram, Num(0)) THEN
        AppendTo(c, "bullish", Signal("MACD",
            "MACD above signal line with positive histogram",
            "Bullish momentum building. Watch for histogram expansion for stronger moves.",
            IF Gt(r.MACD_Histogram, Num(0)) THEN "Strong" ELSE "Medium", "Medium-term"))
    ELSE IF Lt(r.MACD, r.MACD_Signal) /\ Lt(r.MACD_Histogram, Num(0)) THEN
        AppendTo(c, "bearish", Signal("MACD",
            "MACD below signal line with negative histogram",
            "Bearish momentum building. Watch for histogram expansion for stronger moves.",
            IF Lt(r.MACD_Histogram, Num(0)) THEN "Strong" ELSE "Medium", "Medium-term"))
    ELSE c

trend_direction(r) == IF Gt(r.DI_Plus, r.DI_Minus) THEN "bullish" ELSE "bearish"

\* The ADX rule with the ranging signal given up to 25, leaving no band without one.
AdxRuleNoDeadZone(c, r) ==
    IF Gt(r.ADX, Num(25000)) THEN
        AppendTo(c, trend_direction(r), Signal("ADX Trend Strength",
            "Strong trending market (ADX: {ADX:.1f})",
            IF trend_direction(r) = "bullish"
            THEN "Strong bullish trend in place. Expect trend continuation with minor pullbacks."
            ELSE "Strong bearish trend in place. Expect trend continuation with minor pullbacks.",
            IF Gt(r.ADX, Num(40000)) THEN "Strong" ELSE "Medium", "Medium to Long-term"))
    ELSE IF Le(r.ADX, Num(25000)) THEN
        AppendTo(c, "neutral", Signal("ADX Trend Strength",
            "Weak trending market (ADX: {ADX:.1f})",
            "Market in consolidation/ranging phase. Look for breakout setups.",
            "Medium", "All timeframes"))
    ELSE c
AdxRule(c, r) ==
    IF Gt(r.ADX, Num(25000)) THEN
        AppendTo(c, trend_direction(r), Signal("ADX Trend Strength",
            "Strong trending market (ADX: {ADX:.1f})",
            IF trend_direction(r) = "bullish"
            THEN "Strong bullish trend in place. Expect trend continuation with minor pullbacks."
            ELSE "Strong bearish trend in place. Expect trend continuation with minor pullbacks.",
            IF Gt(r.ADX, Num(40000)) THEN "Strong" ELSE "Medium", "Medium to Long-term"))
    ELSE IF Lt(r.ADX, Num(20000)) THEN
        AppendTo(c, "neutral", Signal("ADX Trend Strength",
            "Weak trending market (ADX: {ADX:.1f})",
            "Market in consolidation/ranging phase. Look for breakout setups.",
            "Medium", "All timeframes"))
    ELSE c

\* A chained comparison or an `and` subscripts its right operand only when the left
\* one is true; DI_Plus and DI_Minus are subscripted only inside the ADX > 25 branch.
TrendReads(r) ==
    <<"EMA_9", "EMA_21">>
    \o (IF Gt(r.EMA_9, r.EMA_21) \/ Lt(r.EMA_9, r.EMA_21) THEN <<"EMA_50">> ELSE <<>>)
    \o <<"Close", "EMA_21", "MACD", "MACD_Signal">>
    \o (IF Gt(r.MACD, r.MACD_Signal) \/ Lt(r.MACD, r.MACD_Signal)
        THEN <<"MACD_Histogram">> ELSE <<>>)
    \o <<"ADX">>
    \o (IF Gt(r.ADX, Num(25000)) THEN <<"DI_Plus", "DI_Minus">> ELSE <<>>)

analyze_trend_confluence(r) ==
    Outcome(TrendReads(r), r,
            AdxRule(MacdRule(PriceVsEmaRule(EmaAlignmentRule(NewConfluences, r), r), r), r))

(***************************************************************************)
(* analyze_volatility_confluence.                                          *)
(***************************************************************************)
BollingerRule(c, r) ==
    IF Lt(r.BB_Position, Num(100)) THEN
        AppendTo(c, "bullish", Signal("Bollinger Bands",
            "Price near lower band (Position: {bb_pos:.2f})",
            "Potential mean reversion setup. Watch for bounce off lower band or breakdown.",
            "Medium", "Short-term"))
    ELSE IF Gt(r.BB_Position, Num(900)) THEN
        AppendTo(c, "bearish", Signal("Bollinger Bands",
            "Price near upper band (Position: {bb_pos:.2f})",
            "Potential mean reversion setup. Watch for rejection at upper band or breakout.",
            "Medium", "Short-term"))
    ELSE c

BandWidthRule(c, r) ==
    IF Lt(r.BB_Width, Num(2000)) THEN
        AppendTo(c, "neutral", Signal("Bollinger Band Width",
            "Low volatility environment (Width: {BB_Width:.2f}%)",
            "Squeeze condition. Expect volatility expansion and potential breakout soon.",
            "Strong", "Short to Medium-term"))
    ELSE IF Gt(r.BB_Width, Num(8000)) THEN
        AppendTo(c, "neutral", Signal("Bollinger Band Width",
            "High volatility environment (Width: {BB_Width:.2f}%)",
            "Volatility expansion phase. Expect potential reversion to mean.",
            "Medium", "Short-term"))
    ELSE c

AtrRule(c, r) ==
    IF Gt(r.ATR_Percent, Num(3000)) THEN
        AppendTo(c, "neutral", Signal("Average True Range",
            "High volatility (ATR: {ATR_Percent:.2f}%)",
            "Elevated volatility. Use wider stops and smaller position sizes.",
            "Medium", "All timeframes"))
    ELSE c

VolatilityReads(r) == <<"BB_Position", "BB_Width", "ATR_Percent">>

analyze_volatility_confluence(r) ==
    Outcome(VolatilityReads(r), r,
            AtrRule(BandWidthRule(BollingerRule(NewConfluences, r), r), r))

(***************************************************************************)
(* analyze_volume_confluence.                                              *)
(***************************************************************************)
VolumeRule(c, r) ==
    IF Gt(r.Volume_Ratio, Num(1500)) THEN
        AppendTo(c, "neutral", Signal("Volume",
            "Above average volume ({Volume_Ratio:.1f}x normal)",
            "Strong participation. Moves likely to be more sustainable.",
            IF Gt(r.Volume_Ratio, Num(2000)) THEN "Strong" ELSE "Medium", "Short-term"))
    ELSE IF Lt(r.Volume_Ratio, Num(700)) THEN
        AppendTo(c, "neutral", Signal("Volume",
            "Below average volume ({Volume_Ratio:.1f}x normal)",
            "Low participation. Moves may lack conviction and sustainability.",
            "Medium", "Short-term"))
    ELSE c

CmfRule(c, r) ==
    IF Gt(r.CMF, Num(200)) THEN
        AppendTo(c, "bullish", Signal("Chaikin Money Flow",
            "Strong buying pressure (CMF: {CMF:.2f})",
            "Money flowing into the asset. Supports bullish bias.",
            IF Gt(r.CMF, Num(300)) THEN "Strong" ELSE "Medium", "Medium-term"))
    ELSE IF Lt(r.CMF, Num(-200)) THEN
        AppendTo(c, "bearish", Signal("Chaikin Money Flow",
            "Strong selling pressure (CMF: {CMF:.2f})",
            "Money flowing out of the asset. Supports bearish bias.",
            IF Lt(r.CMF, Num(-300)) THEN "Strong" ELSE "Medium", "Medium-term"))
    ELSE c

VolumeReads(r) == <<"Volume_Ratio", "CMF">>

analyze_volume_confluence(r) ==
    Outcome(VolumeReads(r), r, CmfRule(VolumeRule(NewConfluences, r), r))

(***************************************************************************)
(* analyze_price_action.                                                   *)
(***************************************************************************)
candle_type(r) == IF Gt(r.Close, r.Open) THEN "bullish" ELSE "bearish"

\* The candle rule with the large-body test at 3% in place of 2%.
CandleRuleLargeAtThree(c, r) ==
    IF Gt(r.Body_Size, Num(3000)) THEN
        AppendTo(c, candle_type(r), Signal("Price Action",
            IF candle_type(r) = "bullish"
            THEN "Large bullish candle (Body: {Body_Size:.2f}%)"
            ELSE "Large bearish candle (Body: {Body_Size:.2f}%)",
            IF candle_type(r) = "bullish"
            THEN "Strong bullish conviction. Expect follow-through in next few candles."
            ELSE "Strong bearish conviction. Expect follow-through in next few candles.",
            "Strong", "Short-term"))
    ELSE c
CandleRule(c, r) ==
    IF Gt(r.Body_Size, Num(2000)) THEN
        AppendTo(c, candle_type(r), Signal("Price Action",
            IF candle_type(r) = "bullish"
            THEN "Large bullish candle (Body: {Body_Size:.2f}%)"
            ELSE "Large bearish candle (Body: {Body_Size:.2f}%)",
            IF candle_type(r) = "bullish"
            THEN "Strong bullish conviction. Expect follow-through in next few candles."
            ELSE "Strong bearish conviction. Expect follow-through in next few candles.",
            IF Gt(r.Body_Size, Num(3000)) THEN "Strong" ELSE "Medium", "Short-term"))
    ELSE c

UpperWickRule(c, r) ==
    IF Gt(r.Upper_Wick, Twice(r.Body_Size)) /\ Gt(r.Close, r.Open) THEN
        AppendTo(c, "bearish", Signal("Price Action - Wicks",
            "Long upper wick on bullish candle (Wick: {Upper_Wick:.2f}%)",
            "Rejection at highs despite bullish close. Potential resistance area.",
            "Medium", "Short-term"))
    ELSE c

\* The lower-wick rule without the test of a bearish close.
LowerWickRuleAnyCandle(c, r) ==
    IF Gt(r.Lower_Wick, Twice(r.Body_Size)) THEN
        AppendTo(c, "bullish", Signal("Price Action - Wicks",
            "Long lower wick on bearish candle (Wick: {Lower_Wick:.2f}%)",
            "Support found at lows despite bearish close. Potential support area.",
            "Medium", "Short-term"))
    ELSE c
LowerWickRule(c, r) ==
    IF Gt(r.Lower_Wick, Twice(r.Body_Size)) /\ Lt(r.Close, r.Open) THEN
        AppendTo(c, "bullish", Signal("Price Action - Wicks",
            "Long lower wick on bearish candle (Wick: {Lower_Wick:.2f}%)",
            "Support found at lows despite bearish close. Potential support area.",
            "Medium", "Short-term"))
    ELSE c

\* Close and Open are subscripted only for a large body or a long wick.
PriceActionReads(r) ==
    <<"Body_Size">>
    \o (IF Gt(r.Body_Size, Num(2000)) THEN <<"Close", "Open">> ELSE <<>>)
    \o <<"Upper_Wick", "Body_Size">>
    \o (IF Gt(r.Upper_Wick, Twice(r.Body_Size)) THEN <<"Close", "Open">> ELSE <<>>)
    \o <<"Lower_Wick", "Body_Size">>
    \o (IF Gt(r.Lower_Wick, Twice(r.Body_Size)) THEN <<"Close", "Open">> ELSE <<>>)

analyze_price_action(r) ==
    Outcome(PriceActionReads(r), r,
            LowerWickRule(UpperWickRule(CandleRule(NewConfluences, r), r), r))

(***************************************************************************)
(* generate_comprehensive_analysis: the fixed evaluator order and the      *)
(* merge of lines 409-419.                                                 *)
(***************************************************************************)
Evaluators == {"momentum", "trend", "volatility", "volume", "price_action"}

\* The evaluators that lines 402-406 call before e.
CalledBefore(e) ==
    CASE e = "momentum" -> {}
      [] e = "trend" -> {"momentum"}
      [] e = "volatility" -> {"momentum", "trend"}
      [] e = "volume" -> {"momentum", "trend", "volatility"}
      [] e = "price_action" -> {"momentum", "trend", "volatility", "volume"}

Evaluate(e, r) ==
    CASE e = "momentum" -> analyze_momentum_confluence(r)
      [] e = "trend" -> analyze_trend_confluence(r)
      [] e = "volatility" -> analyze_volatility_confluence(r)
      [] e = "volume" -> analyze_volume_confluence(r)
      [] e = "price_action" -> analyze_price_action(r)

\* momentum_conf[d] + trend_conf[d] + volatility_conf[d] + volume_conf[d] + price_action_conf[d]
CombineDirectionTrendFirst(cf, d) ==
    cf["trend"][d] \o cf["momentum"][d] \o cf["volatility"][d]
        \o cf["volume"][d] \o cf["price_action"][d]
CombineDirection(cf, d) ==
    cf["momentum"][d] \o cf["trend"][d] \o cf["volatility"][d]
        \o cf["volume"][d] \o cf["price_action"][d]

Combine(cf) ==
    [bullish |-> CombineDirection(cf, "bullish"),
     bearish |-> CombineDirection(cf, "bearish"),
     neutral |-> CombineDirection(cf, "neutral")]

(***************************************************************************)
(* Snapshots tried.  Each evaluator's fields are drawn from a few          *)
(* profiles and a row is one profile of each; the Core profiles are        *)
(* ordinary snapshots with the volatility, volume and wick rules quiet or  *)
(* all loud, the Edge ones make single rules fire, lack a key or hold nan, *)
(* inf or a non-positive price.  Open, Close and the candle ratios go      *)
(* together.                                                               *)
(***************************************************************************)
MomentumRow(rsi, k, d, w) ==
    [RSI_14 |-> rsi, Stoch_K |-> k, Stoch_D |-> d, Williams_R |-> w]
MomentumCore ==
    {MomentumRow(Num(25000), Num(15000), Num(12000), Num(-85000)),
     MomentumRow(Num(75000), Num(85000), Num(90000), Num(-10000)),
     MomentumRow(Num(50000), Num(50000), Num(50000), Num(-50000))}
MomentumEdge ==
    {MomentumRow(Num(40000), Num(19000), Num(19000), Num(-50000)),
     MomentumRow(NaN, Num(50000), Num(50000), Num(-50000)),
     MomentumRow(Num(40000), Num(50000), Missing, Num(-50000)),
     MomentumRow(Num(40000), Num(50000), Num(50000), Missing)}

TrendRow(e9, e21, e50, macd, sig, hist, adx, dip, dim) ==
    [EMA_9 |-> e9, EMA_21 |-> e21, EMA_50 |-> e50, MACD |-> macd,
     MACD_Signal |-> sig, MACD_Histogram |-> hist, ADX |-> adx,
     DI_Plus |-> dip, DI_Minus |-> dim]
TrendCore ==
    {TrendRow(Num(101000), Num(99000), Num(97000), Num(500), Num(300), Num(200),
              Num(30000), Num(25000), Num(15000)),
     TrendRow(Num(103000), Num(105000), Num(107000), Num(-500), Num(-300), Num(-200),
              Num(45000), Num(10000), Num(30000)),
     TrendRow(Num(100000), Num(99000), Num(101000), Num(0), Num(0), Num(0),
              Num(15000), Num(20000), Num(20000))}
TrendEdge ==
    {TrendRow(Num(100000), Num(100000), Num(100000), Num(0), Num(0), Num(0),
              Num(22000), Num(20000), Num(20000)),
     TrendRow(Num(100000), Num(100000), Missing, Num(0), Num(0), Missing,
              Num(22000), Missing, Missing),
     TrendRow(Num(101000), NaN, Num(97000), Num(500), Num(300), Num(200),
              Num(22000), Num(20000), Num(20000)),
     TrendRow(Num(101000), Num(99000), Num(97000), Num(500), Num(300), Num(200),
              Missing, Num(25000), Num(15000))}

VolatilityRow(pos, width, atr) ==
    [BB_Position |-> pos, BB_Width |-> width, ATR_Percent |-> atr]
VolatilityCore ==
    {VolatilityRow(Num(50), Num(5000), Num(1000)),
     VolatilityRow(Num(950), Num(1500), Num(3500))}
VolatilityEdge ==
    {VolatilityRow(Num(500), Num(9000), Num(1000)),
     VolatilityRow(Num(500), Num(5000), Num(1000)),
     VolatilityRow(Num(50), Num(1500), Num(3500)),
     VolatilityRow(PosInf, Num(5000), Num(1000)),
     VolatilityRow(Num(500), Num(5000), Missing)}

VolumeRow(ratio, cmf) == [Volume_Ratio |-> ratio, CMF |-> cmf]
VolumeCore ==
    {VolumeRow(Num(1000), Num(250)),
     VolumeRow(Num(2500), Num(-350))}
VolumeEdge ==
    {VolumeRow(Num(600), Num(350)),
     VolumeRow(Num(1600), Num(-250)),
     VolumeRow(Num(1000), Num(0)),
     VolumeRow(Num(2500), Num(250)),
     VolumeRow(NaN, Num(0)),
     VolumeRow(Num(1000), Missing)}

PriceRow(open, close, body, upper, lower) ==
    [Open |-> open, Close |-> close, Body_Size |-> body,
     Upper_Wick |-> upper, Lower_Wick |-> lower]
PriceCore ==
    {PriceRow(Num(100000), Num(102500), Num(2500), Num(500), Num(500)),
     PriceRow(Num(100000), Num(96500), Num(3500), Num(100), Num(200)),
     PriceRow(Num(100000), Num(100000), Num(0), Num(100), Num(100))}
PriceEdge ==
    {PriceRow(Num(100000), Num(100500), Num(500), Num(1500), Num(100)),
     PriceRow(Num(100000), Num(99500), Num(500), Num(100), Num(1500)),
     PriceRow(Num(100000), Num(102500), Num(2500), Num(6000), Num(500)),
     PriceRow(Num(100000), Num(100200), Num(200), Num(1500), Num(1500)),
     PriceRow(Num(100000), Num(-1000), Num(101000), Num(0), Num(0)),
     PriceRow(Num(100000), NaN, NaN, NaN, NaN),
     PriceRow(Missing, Num(100200), Num(200), Num(100), Num(100))}

MakeRow(m, t, v, vo, p) == m @@ t @@ v @@ vo @@ p

\* A row the aggregator-only runs carry along and never read.
QuietRow ==
    MakeRow(MomentumRow(Num(50000), Num(50000), Num(50000), Num(-50000)),
            TrendRow(Num(100000), Num(99000), Num(101000), Num(0), Num(0), Num(0),
                     Num(15000), Num(20000), Num(20000)),
            VolatilityRow(Num(500), Num(5000), Num(1000)),
            VolumeRow(Num(1000), Num(0)),
            PriceRow(Num(100000), Num(100000), Num(0), Num(100), Num(100)))

(***************************************************************************)
(* Actions.                                                                *)
(***************************************************************************)
\* x_conf = self.analyze_x(latest_row): the local is assigned unless the call raises,
\* and an exception ends the caller.
CallEvaluator(e, next) ==
    LET out == Evaluate(e, row)
    IN  /\ calls[e] < MaxCalls
        /\ calls' = [calls EXCEPT ![e] = @ + 1]
        /\ in_order' = (in_order /\ \A f \in CalledBefore(e) : calls[f] > 0)
        /\ IF out.raised = "none"
           THEN /\ conf' = [conf EXCEPT ![e] = out.confluences]
                /\ pc' = next
                /\ UNCHANGED error
           ELSE /\ error' = [raised |-> out.raised, key |-> out.key]
                /\ pc' = "raised"
                /\ UNCHANGED conf
        /\ UNCHANGED <<confluence_threshold, row, all_confluences, result>>

\* generate_comprehensive_analysis, lines 402-406, one call after the other.
AnalyzeMomentum == pc = "momentum" /\ CallEvaluator("momentum", "trend")
AnalyzeTrend == pc = "trend" /\ CallEvaluator("trend", "volatility")
AnalyzeVolatility == pc = "volatility" /\ CallEvaluator("volatility", "volume")
AnalyzeVolume == pc = "volume" /\ CallEvaluator("volume", "price_action")
AnalyzePriceAction == pc = "price_action" /\ CallEvaluator("price_action", "combine")

\* lines 409-421
CombineAll ==
    /\ pc = "combine"
    /\ all_confluences' = Combine(conf)
    /\ pc' = "calculate"
    /\ UNCHANGED <<confluence_threshold, row, conf, calls, in_order, result, error>>

\* bias, strength = analyzer.calculate_confluence_strength(confluences)
Calculate ==
    /\ pc = "calculate"
    /\ result' = calculate_confluence_strength(all_confluences, confluence_threshold)
    /\ pc' = IF result'.raised = "none" THEN "done" ELSE "raised"
    /\ error' = IF result'.raised = "none" THEN error
                ELSE [raised |-> result'.raised, key |-> "none"]
    /\ UNCHANGED <<confluence_threshold, row, conf, calls, in_order, all_confluences>>

\* A TradingAnalyzer as constructed, and generate_comprehensive_analysis handed a
\* DataFrame whose last row is any of the snapshots above.  main() hands it the frame
\* of add_comprehensive_indicators, which has every column and no row holding nan
\* (dropna, line 114); a frame built elsewhere can end in any of them.
Init ==
    /\ confluence_threshold = DefaultThreshold
    /\ \E m \in MomentumCore \cup MomentumEdge, t \in TrendCore \cup TrendEdge,
          v \in VolatilityCore \cup VolatilityEdge, vo \in VolumeCore \cup VolumeEdge,
          p \in PriceCore \cup PriceEdge :
            row = MakeRow(m, t, v, vo, p)
    /\ pc = "momentum"
    /\ conf = [e \in Evaluators |-> Unset]
    /\ calls = [e \in Evaluators |-> 0]
    /\ in_order = TRUE
    /\ all_confluences = Unset
    /\ result = Unset
    /\ error = NoError

Next ==
    \/ AnalyzeMomentum
    \/ AnalyzeTrend
    \/ AnalyzeVolatility
    \/ AnalyzeVolume
    \/ AnalyzePriceAction
    \/ CombineAll
    \/ Calculate

Spec == Init /\ [][Next]_vars

(***************************************************************************)
(* A caller that holds one snapshot and calls the evaluators itself, in    *)
(* any order and more than once, merging and scoring whenever it can.      *)
(***************************************************************************)
ClientCall(e) == pc = "client" /\ CallEvaluator(e, "client")

ClientCombine ==
    /\ pc = "client"
    /\ \A e \in Evaluators : conf[e] # Unset
    /\ all_confluences' = Combine(conf)
    /\ UNCHANGED <<confluence_threshold, row, pc, conf, calls, in_order, result, error>>

ClientCalculate ==
    /\ pc = "client"
    /\ all_confluences # Unset
    /\ result' = calculate_confluence_strength(all_confluences, confluence_threshold)
    /\ UNCHANGED <<confluence_threshold, row, pc, conf, calls, in_order, all_confluences, error>>

InitAnyOrder ==
    /\ confluence_threshold = DefaultThreshold
    /\ \E m \in MomentumCore, t \in TrendCore, v \in VolatilityCore,
          vo \in VolumeCore, p \in PriceCore :
            row = MakeRow(m, t, v, vo, p)
    /\ pc = "client"
    /\ conf = [e \in Evaluators |-> Unset]
    /\ calls = [e \in Evaluators |-> 0]
    /\ in_order = TRUE
    /\ all_confluences = Unset
    /\ result = Unset
    /\ error = NoError

NextAnyOrder ==
    \/ \E e \in Evaluators : ClientCall(e)
    \/ ClientCombine
    \/ ClientCalculate

SpecAnyOrder == InitAnyOrder /\ [][NextAnyOrder]_vars

(***************************************************************************)
(* calculate_confluence_strength on its own: every Confluence Set of at    *)
(* most MaxSignals signals, of the three strengths and of one the weight   *)
(* table does not know, under every threshold up to MaxThreshold.          *)
(***************************************************************************)
Strengths == {"Strong", "Medium", "Low", "Extreme"}

AnySignal(s) == Signal("Signal", "condition", "implication", s, "Short-term")

SignalsOf(ss) == [i \in DOMAIN ss |-> AnySignal(ss[i])]

InitAggregate ==
    /\ confluence_threshold \in 0..MaxThreshold
    /\ row = QuietRow
    /\ pc = "calculate"
    /\ conf = [e \in Evaluators |-> Unset]
    /\ calls = [e \in Evaluators |-> 0]
    /\ in_order = TRUE
    /\ \E nb \in 0..MaxSignals :
         \E nr \in 0..(MaxSignals - nb) :
           \E nn \in 0..(MaxSignals - nb - nr) :
             \E b \in [1..nb -> Strengths], r \in [1..nr -> Strengths],
                n \in [1..nn -> Strengths] :
                 all_confluences =
                     [bullish |-> SignalsOf(b), bearish |-> SignalsOf(r),
                      neutral |-> SignalsOf(n)]
    /\ result = Unset
    /\ error = NoError

NextAggregate == Calculate

SpecAggregate == InitAggregate /\ [][NextAggregate]_vars

(***************************************************************************)
(* analyze_momentum_confluence on its own: a caller hands it snapshots     *)
(* whose RSI and Stochastic values sit on, just beside and away from the   *)
(* thresholds of the rules.                                                *)
(***************************************************************************)
RsiValues ==
    {Num(25000), Num(29999), Num(30000), Num(30001), Num(44999), Num(45000),
     Num(50000), Num(55000), Num(55001), Num(69999), Num(70000), Num(70001),
     Num(75000), NaN}
StochValues ==
    {Num(15000), Num(19000), Num(19999), Num(20000), Num(50000), Num(80000),
     Num(80001), Num(81000), Num(85000)}
WilliamsValues == {Num(-85000), Num(-50000), Num(-10000)}

InitMomentum ==
    /\ confluence_threshold = DefaultThreshold
    /\ \E rsi \in RsiValues, k \in StochValues, d \in StochValues, w \in WilliamsValues :
            row = MomentumRow(rsi, k, d, w) @@ QuietRow
    /\ pc = "client"
    /\ conf = [e \in Evaluators |-> Unset]
    /\ calls = [e \in Evaluators |-> 0]
    /\ in_order = TRUE
    /\ all_confluences = Unset
    /\ result = Unset
    /\ error = NoError

NextMomentum == ClientCall("momentum")

SpecMomentum == InitMomentum /\ [][NextMomentum]_vars

(***************************************************************************)
(* analyze_trend_confluence on its own: a caller hands it snapshots whose  *)
(* ADX sits on, just beside and away from 20, 25 and 40, with DI+ above,   *)
(* below and equal to DI-.                                                 *)
(***************************************************************************)
AdxValues ==
    {Num(15000), Num(19999), Num(20000), Num(20001), Num(22000), Num(24999),
     Num(25000), Num(25010), Num(30000), Num(40000), Num(40001), Num(45000), NaN}
DiPairs ==
    {<<Num(25000), Num(15000)>>, <<Num(15000), Num(25000)>>, <<Num(20000), Num(20000)>>}

InitTrend ==
    /\ confluence_threshold = DefaultThreshold
    /\ \E t \in TrendCore, adx \in AdxValues, di \in DiPairs :
            row = [t EXCEPT !.ADX = adx, !.DI_Plus = di[1], !.DI_Minus = di[2]] @@ QuietRow
    /\ pc = "client"
    /\ conf = [e \in Evaluators |-> Unset]
    /\ calls = [e \in Evaluators |-> 0]
    /\ in_order = TRUE
    /\ all_confluences = Unset
    /\ result = Unset
    /\ error = NoError

NextTrend == ClientCall("trend")

SpecTrend == InitTrend /\ [][NextTrend]_vars

(***************************************************************************)
(* Properties.  The scores are restated from the rule of section 4.2:      *)
(* three per Strong signal, two per Medium, one per any other.             *)
(***************************************************************************)
CountOf(sigs, s) == Cardinality({i \in DOMAIN sigs : sigs[i].strength = s})
Weighted(sigs) ==
    3 * CountOf(sigs, "Strong") + 2 * CountOf(sigs, "Medium")
        + (Len(sigs) - CountOf(sigs, "Strong") - CountOf(sigs, "Medium"))
BullishScore == Weighted(all_confluences.bullish)
BearishScore == Weighted(all_confluences.bearish)
NeutralScore == Weighted(all_confluences.neutral)
TotalScore == BullishScore + BearishScore + NeutralScore
Scored == pc = "done" /\ result # Unset

\* C1: with totalScore > 0 the label is Bullish Bias exactly when bullishScore >
\* bearishScore and bullishScore >= threshold, Bearish Bias exactly when bearishScore >
\* bullishScore and bearishScore >= threshold, and Mixed/Neutral in every other case.
C1_LabelByRawScoreGate ==
    (Scored /\ TotalScore > 0) =>
        LET bull == BullishScore > BearishScore /\ BullishScore >= confluence_threshold
            bear == BearishScore > BullishScore /\ BearishScore >= confluence_threshold
        IN  /\ result.raised = "none"
            /\ (result.label = "Bullish Bias") <=> bull
            /\ (result.label = "Bearish Bias") <=> bear
            /\ (result.label = "Mixed/Neutral") <=> (~bull /\ ~bear)
\* A strictly larger bullish score below the threshold was scored Mixed/Neutral.
C1_Witness ==
    /\ Scored
    /\ BullishScore > BearishScore
    /\ BearishScore > 0
    /\ BullishScore < confluence_threshold
    /\ result.label = "Mixed/Neutral"

\* C2 as stated: whenever bullishScore = bearishScore the label is Mixed/Neutral.
C2_TieAlwaysMixed ==
    (Scored /\ BullishScore = BearishScore) => result.label = "Mixed/Neutral"
\* C2 amended: whenever bullishScore = bearishScore and totalScore > 0 the label is
\* Mixed/Neutral, under every threshold; with totalScore = 0 it is No Clear Signal.
C2_TieMixedWhenScored ==
    (Scored /\ BullishScore = BearishScore) =>
        result.label = IF TotalScore > 0 THEN "Mixed/Neutral" ELSE "No Clear Signal"
\* A tie at 5 that reaches the threshold was scored Mixed/Neutral.
C2_Witness ==
    /\ Scored
    /\ BullishScore = 5
    /\ BearishScore = 5
    /\ confluence_threshold <= 5
    /\ result.label = "Mixed/Neutral"

\* C3 as stated: bullishScore 2, bearishScore 0, threshold 3 gives Mixed/Neutral at 50%.
C3_GateExampleIsFiftyPercent ==
    (Scored /\ BullishScore = 2 /\ BearishScore = 0 /\ confluence_threshold = 3) =>
        result = Returned("Mixed/Neutral", <<50, 1>>)
\* C3 amended: bullishScore 2, bearishScore 0, threshold 3 gives Mixed/Neutral with
\* confidence 100 * 2 / totalScore, which is 50% exactly when neutralScore is 2.
C3_GateExampleConfidence ==
    (Scored /\ BullishScore = 2 /\ BearishScore = 0 /\ confluence_threshold = 3) =>
        /\ result = Returned("Mixed/Neutral", Frac(200, 2 + NeutralScore))
        /\ (result.confidence = <<50, 1>>) <=> (NeutralScore = 2)
\* The example with a neutral score of 2 was scored 50%.
C3_Witness ==
    /\ Scored
    /\ BullishScore = 2
    /\ BearishScore = 0
    /\ NeutralScore = 2
    /\ confluence_threshold = 3
    /\ result = Returned("Mixed/Neutral", <<50, 1>>)

\* C4: a Confluence Set with totalScore = 0 gives ("No Clear Signal", 0), and no
\* Confluence Set makes the call raise (no division by a zero total).
C4_ZeroTotalNoFailure ==
    (pc # "calculate") =>
        /\ pc = "done"
        /\ error = NoError
        /\ result.raised = "none"
        /\ (TotalScore = 0) => (result = Returned("No Clear Signal", <<0, 1>>))
\* The empty Confluence Set was scored.
C4_Witness ==
    /\ Scored
    /\ TotalScore = 0
    /\ result = Returned("No Clear Signal", <<0, 1>>)

\* C5: the label is one of the four, the confidence lies in 0..100, and with
\* totalScore > 0 it is 100 * (score of the winning direction) / totalScore.
C5_LabelAndConfidenceRange ==
    Scored =>
        LET winning ==
                CASE result.label = "Bullish Bias" -> BullishScore
                  [] result.label = "Bearish Bias" -> BearishScore
                  [] OTHER -> Max(BullishScore, BearishScore)
        IN  /\ result.label \in
                {"Bullish Bias", "Bearish Bias", "Mixed/Neutral", "No Clear Signal"}
            /\ result.confidence[2] > 0
            /\ 0 <= result.confidence[1]
            /\ result.confidence[1] <= 100 * result.confidence[2]
            /\ (TotalScore > 0) => (result.confidence = Frac(100 * winning, TotalScore))
\* A Bearish Bias strictly between 0% and 100% was returned.
C5_Witness ==
    /\ Scored
    /\ result.label = "Bearish Bias"
    /\ BullishScore > 0
    /\ NeutralScore > 0
    /\ result.confidence = Frac(100 * BearishScore, TotalScore)

\* C6: each direction's score is the sum of 3 per Strong, 2 per Medium, 1 per Low and
\* 1 per any other strength, and totalScore is the sum of the three scores.
C6_ScoresAreWeightedSums ==
    (all_confluences # Unset) =>
        /\ \A d \in Directions : Score(all_confluences[d]) = Weighted(all_confluences[d])
        /\ Scored =>
            /\ (result.label = "No Clear Signal") <=> (TotalScore = 0)
            /\ (TotalScore > 0) =>
                   result.confidence[2] * 100 * Max(BullishScore, BearishScore)
                       = result.confidence[1] * TotalScore
\* A set holding an unrecognised strength beside a Strong and a Medium was scored.
C6_Witness ==
    /\ Scored
    /\ \E i \in DOMAIN all_confluences.bullish :
           all_confluences.bullish[i].strength = "Extreme"
    /\ \E i \in DOMAIN all_confluences.bullish :
           all_confluences.bullish[i].strength = "Strong"
    /\ \E i \in DOMAIN all_confluences.neutral :
           all_confluences.neutral[i].strength = "Medium"
    /\ BullishScore = 4
    /\ NeutralScore = 2

MissingSome == \E f \in Fields : row[f] = Missing
InvalidSome ==
    \E f \in Fields :
        \/ row[f][1] \in {"nan", "inf"}
        \/ f \in {"Open", "Close"} /\ row[f][1] = "num" /\ row[f][2] <= 0
NothingProduced ==
    /\ \A e \in Evaluators : conf[e] = Unset
    /\ all_confluences = Unset
    /\ result = Unset

\* C7: a snapshot that lacks a required indicator value fails before any evaluator has
\* run, the error reaching the caller: no evaluator returns signals, no rule is
\* skipped silently, and no Confluence Set or Bias Result is produced.
C7_MissingFieldFailsFast ==
    MissingSome => (NothingProduced /\ pc \in {"momentum", "raised"})

\* C8: a snapshot holding nan, an infinity or a non-positive price is rejected before
\* evaluation: no evaluator returns signals from it and no Bias Result is computed.
C8_InvalidValueRejected ==
    InvalidSome => (NothingProduced /\ pc \in {"momentum", "raised"})

ScenarioRow ==
    /\ row.RSI_14 = Num(25000)
    /\ row.Stoch_K = Num(15000) /\ row.Stoch_D = Num(12000)
    /\ row.Williams_R = Num(-85000)
    /\ Gt(row.EMA_9, row.EMA_21) /\ Gt(row.EMA_21, row.EMA_50)
    /\ Gt(row.Close, row.EMA_21)
    /\ Gt(row.MACD, row.MACD_Signal) /\ Gt(row.MACD_Histogram, Num(0))
    /\ row.ADX = Num(30000) /\ Gt(row.DI_Plus, row.DI_Minus)
    /\ row.BB_Position = Num(50)
    /\ row.CMF = Num(250)
    /\ row.Body_Size = Num(2500) /\ Gt(row.Close, row.Open)
\* The fields the scenario does not name sit where no rule fires: band width within
\* 2..8, ATR at most 3, volume ratio within 0.7..1.5, upper wick at most twice the body.
ScenarioQuiet ==
    /\ Le(Num(2000), row.BB_Width) /\ Le(row.BB_Width, Num(8000))
    /\ Le(row.ATR_Percent, Num(3000))
    /\ Le(Num(700), row.Volume_Ratio) /\ Le(row.Volume_Ratio, Num(1500))
    /\ Le(row.Upper_Wick, Twice(row.Body_Size))

\* C11 as stated: the scenario's snapshot gives bullishScore >= 18, bearishScore = 0
\* and the result ('Bullish Bias', 100.0).
C11_ScenarioIsFullBullish ==
    (Scored /\ ScenarioRow) =>
        /\ BullishScore >= 18
        /\ BearishScore = 0
        /\ result = Returned("Bullish Bias", <<100, 1>>)
\* C11 amended: the scenario's snapshot gives bullishScore = 23 and Bullish Bias with
\* confidence 100 * 23 / totalScore; bearishScore = 0 and the confidence 100.0 follow
\* when the fields the scenario leaves open make no volatility, volume or wick rule
\* fire, and the confidence is 100.0 only then.
C11_ScenarioBullishBias ==
    (Scored /\ ScenarioRow) =>
        /\ BullishScore = 23
        /\ result = Returned("Bullish Bias", Frac(2300, TotalScore))
        /\ BearishScore = (IF Gt(row.Upper_Wick, Twice(row.Body_Size)) THEN 2 ELSE 0)
        /\ ScenarioQuiet <=> (result = Returned("Bullish Bias", <<100, 1>>))
\* The scenario with the other fields quiet was scored ('Bullish Bias', 100.0).
C11_Witness ==
    /\ Scored
    /\ ScenarioRow
    /\ ScenarioQuiet
    /\ Len(all_confluences.bullish) = 10
    /\ result = Returned("Bullish Bias", <<100, 1>>)

\* The signals of one indicator name in a returned dict.
NamedIn(c, d, name) == {i \in DOMAIN c[d] : c[d][i].indicator = name}
CountNamed(c, name) ==
    Cardinality(NamedIn(c, "bullish", name)) + Cardinality(NamedIn(c, "bearish", name))
        + Cardinality(NamedIn(c, "neutral", name))
Emits(c, d, name, s) == \E i \in NamedIn(c, d, name) : c[d][i].strength = s
EmitsIn(c, d, name) == NamedIn(c, d, name) # {}

\* A snapshot value as a number of thousandths, and whether it is one.
IsNum(a) == a[1] = "num"
Val(a) == a[2]

\* C12: the momentum evaluator emits at most one 'RSI (14)' signal: bullish Medium
\* exactly when RSI < 30, bearish Medium exactly when RSI > 70, neutral Low exactly when
\* 45 <= RSI <= 55, none otherwise; RSI = 30.0 and RSI = 70.0 emit none, RSI = 29.999
\* and RSI = 70.001 emit one.
C12_RsiBoundaries ==
    (conf["momentum"] # Unset) =>
        LET c == conf["momentum"]
            rsi == row.RSI_14
            low == IsNum(rsi) /\ Val(rsi) < 30000
            high == IsNum(rsi) /\ Val(rsi) > 70000
            mid == IsNum(rsi) /\ 45000 <= Val(rsi) /\ Val(rsi) <= 55000
        IN  /\ CountNamed(c, "RSI (14)") <= 1
            /\ EmitsIn(c, "bullish", "RSI (14)") <=> low
            /\ EmitsIn(c, "bearish", "RSI (14)") <=> high
            /\ EmitsIn(c, "neutral", "RSI (14)") <=> mid
            /\ low => Emits(c, "bullish", "RSI (14)", "Medium")
            /\ high => Emits(c, "bearish", "RSI (14)", "Medium")
            /\ mid => Emits(c, "neutral", "RSI (14)", "Low")
            /\ rsi \in {Num(30000), Num(70000)} => CountNamed(c, "RSI (14)") = 0
            /\ rsi \in {Num(29999), Num(70001)} => CountNamed(c, "RSI (14)") = 1
\* The evaluator returned on RSI = 30.0 without an RSI signal.
C12_Witness ==
    /\ conf["momentum"] # Unset
    /\ row.RSI_14 = Num(30000)
    /\ CountNamed(conf["momentum"], "RSI (14)") = 0
    /\ CountNamed(conf["momentum"], "Stochastic") = 1

\* C13: the momentum evaluator emits a bullish 'Stochastic' signal exactly when
\* %K < 20 and %D < 20, Strong if %K > %D and Medium otherwise, and a bearish one
\* exactly when %K > 80 and %D > 80, Strong if %K < %D and Medium otherwise.
C13_StochasticStrength ==
    (conf["momentum"] # Unset) =>
        LET c == conf["momentum"]
            k == Val(row.Stoch_K)
            d == Val(row.Stoch_D)
            oversold == k < 20000 /\ d < 20000
            overbought == k > 80000 /\ d > 80000
        IN  /\ IsNum(row.Stoch_K) /\ IsNum(row.Stoch_D)
            /\ CountNamed(c, "Stochastic") <= 1
            /\ ~EmitsIn(c, "neutral", "Stochastic")
            /\ EmitsIn(c, "bullish", "Stochastic") <=> oversold
            /\ EmitsIn(c, "bearish", "Stochastic") <=> overbought
            /\ oversold =>
                   Emits(c, "bullish", "Stochastic", IF k > d THEN "Strong" ELSE "Medium")
            /\ overbought =>
                   Emits(c, "bearish", "Stochastic", IF k < d THEN "Strong" ELSE "Medium")
            /\ (k = 19000 /\ d = 19000) => Emits(c, "bullish", "Stochastic", "Medium")
            /\ (k = 19000 /\ d = 15000) => Emits(c, "bullish", "Stochastic", "Strong")
\* The evaluator returned a Medium bullish Stochastic signal on %K = %D = 19.
C13_Witness ==
    /\ conf["momentum"] # Unset
    /\ row.Stoch_K = Num(19000)
    /\ row.Stoch_D = Num(19000)
    /\ Emits(conf["momentum"], "bullish", "Stochastic", "Medium")

\* C14: the trend evaluator emits an 'ADX Trend Strength' signal in the direction of
\* the larger of DI+ and DI- exactly when ADX > 25, Strong if ADX > 40 and Medium
\* otherwise; a neutral Medium one exactly when ADX < 20; none for ADX in [20, 25].
\* ADX = 25.0 emits none and ADX = 25.01 with DI+ > DI- emits bullish Medium.
C14_AdxBandsAndDeadZone ==
    (conf["trend"] # Unset) =>
        LET c == conf["trend"]
            name == "ADX Trend Strength"
            adx == row.ADX
            trending == IsNum(adx) /\ Val(adx) > 25000
            ranging == IsNum(adx) /\ Val(adx) < 20000
            s == IF IsNum(adx) /\ Val(adx) > 40000 THEN "Strong" ELSE "Medium"
            dip == Val(row.DI_Plus)
            dim == Val(row.DI_Minus)
        IN  /\ CountNamed(c, name) <= 1
            /\ (EmitsIn(c, "bullish", name) \/ EmitsIn(c, "bearish", name)) <=> trending
            /\ EmitsIn(c, "neutral", name) <=> ranging
            /\ (trending /\ dip > dim) => Emits(c, "bullish", name, s)
            /\ (trending /\ dim > dip) => Emits(c, "bearish", name, s)
            /\ trending => (Emits(c, "bullish", name, s) \/ Emits(c, "bearish", name, s))
            /\ ranging => Emits(c, "neutral", name, "Medium")
            /\ (IsNum(adx) /\ 20000 <= Val(adx) /\ Val(adx) <= 25000) =>
                   CountNamed(c, name) = 0
            /\ (adx = Num(25010) /\ dip > dim) => Emits(c, "bullish", name, "Medium")
\* The evaluator returned on ADX = 25.0 with no trend-strength signal among its others.
C14_Witness ==
    /\ conf["trend"] # Unset
    /\ row.ADX = Num(25000)
    /\ Val(row.DI_Plus) > Val(row.DI_Minus)
    /\ CountNamed(conf["trend"], "ADX Trend Strength") = 0
    /\ CountNamed(conf["trend"], "Price vs EMA 21") = 1

\* The indicator names of the rule table.
IndicatorNames ==
    {"RSI (14)", "Stochastic", "Williams %R", "EMA Alignment", "Price vs EMA 21", "MACD",
     "ADX Trend Strength", "Bollinger Bands", "Bollinger Band Width",
     "Average True Range", "Volume", "Chaikin Money Flow", "Price Action",
     "Price Action - Wicks"}
AllNamed(c) ==
    \A d \in Directions : \A i \in DOMAIN c[d] : c[d][i].indicator \in IndicatorNames

\* C15: in the merged Confluence Set, and in each evaluator's own output, no indicator
\* name occurs in more than one signal across the three directions together, and
\* every signal carries one of the fourteen names.
C15_EachRuleAtMostOnce ==
    /\ \A e \in Evaluators :
           (conf[e] # Unset) =>
               (AllNamed(conf[e]) /\ \A name \in IndicatorNames : CountNamed(conf[e], name) <= 1)
    /\ (all_confluences # Unset) =>
           /\ AllNamed(all_confluences)
           /\ \A name \in IndicatorNames : CountNamed(all_confluences, name) <= 1
\* A merged set in which several rules of the trend evaluator and both price-action
\* rules fired together, on a candle whose both wicks are longer than twice its body.
C15_Witness ==
    /\ all_confluences # Unset
    /\ CountNamed(all_confluences, "EMA Alignment") = 1
    /\ CountNamed(all_confluences, "Price vs EMA 21") = 1
    /\ CountNamed(all_confluences, "MACD") = 1
    /\ CountNamed(all_confluences, "Price Action - Wicks") = 1
    /\ Gt(row.Upper_Wick, Twice(row.Body_Size))
    /\ Gt(row.Lower_Wick, Twice(row.Body_Size))

\* C16: the trend evaluator emits exactly one 'Price vs EMA 21' signal, of strength
\* Medium, bullish when Close > EMA21 and bearish in every other case; so the merged
\* Confluence Set has bullishScore + bearishScore >= 2 and the aggregator never returns
\* 'No Clear Signal' for it; a snapshot holding every field never ends in an error.
C16_PriceVsEmaAlwaysPresent ==
    /\ (conf["trend"] # Unset) =>
           LET c == conf["trend"]
               above == /\ IsNum(row.Close) /\ IsNum(row.EMA_21)
                        /\ Val(row.Close) > Val(row.EMA_21)
           IN  /\ CountNamed(c, "Price vs EMA 21") = 1
               /\ Emits(c, IF above THEN "bullish" ELSE "bearish", "Price vs EMA 21", "Medium")
    /\ (all_confluences # Unset) =>
           /\ CountNamed(all_confluences, "Price vs EMA 21") = 1
           /\ BullishScore + BearishScore >= 2
    /\ (result # Unset) =>
           /\ result.raised = "none"
           /\ result.label \in {"Bullish Bias", "Bearish Bias", "Mixed/Neutral"}
    /\ ~MissingSome => pc # "raised"
\* A snapshot holding every field, with Close equal to EMA 21 and no other directional
\* rule firing, was scored: the one bearish Medium signal keeps it from No Clear Signal.
C16_Witness ==
    /\ Scored
    /\ ~MissingSome
    /\ row.Close = row.EMA_21
    /\ Emits(conf["trend"], "bearish", "Price vs EMA 21", "Medium")
    /\ BullishScore = 0
    /\ BearishScore = 2
    /\ result.label = "Mixed/Neutral"

\* The Confluence Set with its bullish and bearish sequences exchanged.
Swapped(c) == [bullish |-> c.bearish, bearish |-> c.bullish, neutral |-> c.neutral]
SwappedLabel(label) ==
    CASE label = "Bullish Bias" -> "Bearish Bias"
      [] label = "Bearish Bias" -> "Bullish Bias"
      [] OTHER -> label

\* C17: exchanging the bullish and bearish sequences of a Confluence Set exchanges the
\* labels Bullish Bias and Bearish Bias, leaves Mixed/Neutral and No Clear Signal as
\* they are, and leaves the confidence unchanged, under every threshold.
C17_DirectionSymmetry ==
    Scored =>
        LET other ==
                calculate_confluence_strength(Swapped(all_confluences), confluence_threshold)
        IN  /\ other.raised = "none"
            /\ other.label = SwappedLabel(result.label)
            /\ other.confidence = result.confidence
\* A Bullish Bias over a smaller bearish score and some neutral score, whose exchange
\* is a Bearish Bias.
C17_Witness ==
    /\ Scored
    /\ result.label = "Bullish Bias"
    /\ BearishScore > 0
    /\ NeutralScore > 0
    /\ calculate_confluence_strength(Swapped(all_confluences), confluence_threshold).label
           = "Bearish Bias"

\* a <= b for two fractions with positive denominators.
FracLe(a, b) == a[1] * b[2] <= b[1] * a[2]

\* C18: with bullishScore + bearishScore > 0 the label is the one the same bullish and
\* bearish sequences get with no neutral signal at all (so any two neutral sequences
\* give the same label), and appending a neutral signal of any strength keeps the
\* label and never increases the confidence.
C18_NeutralKeepsLabel ==
    (Scored /\ BullishScore + BearishScore > 0) =>
        LET WithNeutral(n) ==
                calculate_confluence_strength([all_confluences EXCEPT !.neutral = n],
                                              confluence_threshold)
        IN  /\ WithNeutral(<<>>).label = result.label
            /\ \A s \in Strengths :
                   LET more == WithNeutral(Append(all_confluences.neutral, AnySignal(s)))
                   IN  /\ more.label = result.label
                       /\ FracLe(more.confidence, result.confidence)
\* A Bullish Bias reached with a neutral score larger than the bullish score.
C18_Witness ==
    /\ Scored
    /\ result.label = "Bullish Bias"
    /\ NeutralScore > BullishScore
    /\ Len(all_confluences.neutral) >= 2
    /\ FracLe(result.confidence, <<50, 1>>)

====
